---- MODULE Spec2Model ----
(***************************************************************************)
(* Link inline tool (src/components/inline-tools/inline-tool-link.ts).     *)
(*                                                                         *)
(* Strings are sequences of one-character strings, so that trim, the      *)
(* regular expressions and includes() are computed character by character.*)
(* The document is a row of DocLen text cells; a cell is either plain or  *)
(* carries the href of the <a> element around it, and an <a> element is a *)
(* maximal run of cells with the same href.  A selection is NoSel or a    *)
(* pair <<from, to>> of cell boundaries (0..DocLen); from = to is a caret.*)
(* The CSS classes of the button, the input and the panel are             *)
(* presentation: the panel is shown exactly while inputOpened holds.      *)
(***************************************************************************)
EXTENDS Integers, Sequences, FiniteSets, TLC

\* ------------------------------------------------------------------ bounds
DocLen == 2

\* longest raw input handed to prepareLink on its own
MaxLen == 5

\* ----------------------------------------------------------------- strings
WS == {" ", "\t"}

WordChars == {"a", "b", "h", "o", "p", "t", "n", "u", "l", "x", "H", "O"}

toLocaleLowerCaseChar(c) ==
  CASE c = "H" -> "h"
    [] c = "O" -> "o"
    [] OTHER -> c

toLocaleLowerCase(s) == [i \in 1..Len(s) |-> toLocaleLowerCaseChar(s[i])]

RECURSIVE trimStart(_)
trimStart(s) ==
  IF s # <<>> /\ Head(s) \in WS THEN trimStart(Tail(s)) ELSE s

RECURSIVE trimEnd(_)
trimEnd(s) ==
  IF s # <<>> /\ s[Len(s)] \in WS THEN trimEnd(SubSeq(s, 1, Len(s) - 1)) ELSE s

trim(s) == trimEnd(trimStart(s))

includes(hay, needle) ==
  \E i \in 0..Len(hay) :
    /\ i + Len(needle) <= Len(hay)
    /\ SubSeq(hay, i + 1, i + Len(needle)) = needle

\* --------------------------------------------------------- URL normalizer
\* mutant: every string passes
validateURL_AcceptAll(str) == TRUE

\* !/\s/.test(str)
validateURL(str) == ~ \E i \in 1..Len(str) : str[i] \in WS

\* /^(\w+):\/\//
hasProtocol(link) ==
  \E k \in 1..Len(link) :
    /\ \A i \in 1..k : link[i] \in WordChars
    /\ Len(link) >= k + 3
    /\ link[k + 1] = ":" /\ link[k + 2] = "/" /\ link[k + 3] = "/"

\* /^\/[^\/\s]/
isInternal(link) ==
  Len(link) >= 2 /\ link[1] = "/" /\ link[2] # "/" /\ link[2] \notin WS

\* link.substring(0, 1) === '#'
isAnchor(link) == Len(link) >= 1 /\ link[1] = "#"

\* /^\/\/[^\/\s]/
\* mutant: /^\/\/[^\/]/
isProtocolRelative_AnyNonSlash(link) ==
  Len(link) >= 3 /\ link[1] = "/" /\ link[2] = "/" /\ link[3] # "/"

isProtocolRelative(link) ==
  Len(link) >= 3 /\ link[1] = "/" /\ link[2] = "/"
    /\ link[3] # "/" /\ link[3] \notin WS

\* mutant: the added protocol lacks a slash
HttpPrefix_OneSlash == <<"h", "t", "t", "p", ":", "/">>

HttpPrefix == <<"h", "t", "t", "p", ":", "/", "/">>

addProtocol(link) ==
  IF hasProtocol(link) THEN link
  ELSE IF ~isInternal(link) /\ ~isAnchor(link) /\ ~isProtocolRelative(link)
       THEN HttpPrefix \o link
       ELSE link

prepareLink(link) == addProtocol(trim(link))

\* ------------------------------------------------- document and selection
NoSel == <<>>

Selections == {r \in (0..DocLen) \X (0..DocLen) : r[1] <= r[2]}

Plain == [a |-> FALSE, href |-> <<>>]

Anchor(h) == [a |-> TRUE, href |-> h]

NoTag == <<>>

\* the text cells a selection covers
cover(sel) == IF sel = NoSel THEN {} ELSE (sel[1] + 1)..sel[2]

\* the text cell holding the selection's anchor node
anchorCell(sel) ==
  IF sel[1] < sel[2] THEN sel[1] + 1
  ELSE IF sel[1] >= 1 THEN sel[1] ELSE 1

\* the <a> element (first cell, last cell) around cell c, or NoTag
tagAt(d, c) ==
  IF ~d[c].a THEN NoTag
  ELSE LET lo == CHOOSE i \in 1..c :
                   /\ \A j \in i..c : d[j] = d[c]
                   /\ (i = 1 \/ d[i - 1] # d[c])
           hi == CHOOSE i \in c..DocLen :
                   /\ \A j \in c..i : d[j] = d[c]
                   /\ (i = DocLen \/ d[i + 1] # d[c])
       IN <<lo, hi>>

\* the cells of every <a> element that holds one of the cells cs
tagsOf(d, cs) ==
  UNION {IF tagAt(d, c) = NoTag THEN {} ELSE tagAt(d, c)[1]..tagAt(d, c)[2] : c \in cs}

\* document.execCommand('unlink'): every <a> in the range or around its boundary
execUnlink(d, sel) ==
  IF sel = NoSel THEN d
  ELSE LET gone == tagsOf(d, cover(sel) \cup {anchorCell(sel)})
       IN [c \in 1..DocLen |-> IF c \in gone THEN Plain ELSE d[c]]

\* document.execCommand('createLink', false, link): wraps a non-empty range
execCreateLink(d, sel, link) ==
  [c \in 1..DocLen |-> IF c \in cover(sel) THEN Anchor(link) ELSE d[c]]

\* --------------------------------------------------------- Selection Guard
NewSelectionUtils == [savedSelectionRange |-> NoSel, isFakeBackgroundEnabled |-> FALSE]

save(g, live) == IF live = NoSel THEN g ELSE [g EXCEPT !.savedSelectionRange = live]

\* the live selection after restore()
restore(g, live) == IF g.savedSelectionRange = NoSel THEN live ELSE g.savedSelectionRange

setFakeBackground(g) == [g EXCEPT !.isFakeBackgroundEnabled = TRUE]

removeFakeBackground(g) == [g EXCEPT !.isFakeBackgroundEnabled = FALSE]

clearSaved(g) == [g EXCEPT !.savedSelectionRange = NoSel]

findParentTag(d, live) == IF live = NoSel THEN NoTag ELSE tagAt(d, anchorCell(live))

\* the live selection after expandToTag(tag)
expandToTag(tag) == <<tag[1] - 1, tag[2]>>

\* the live selection after collapseToEnd()
collapseToEnd(live) == IF live = NoSel THEN NoSel ELSE <<live[2], live[2]>>

\* ------------------------------------------------------------ test data
\* window.localStorage.existingLinks as parsed by renderActions
KnownPages ==
  << [name |-> <<"H", "o">>, url |-> <<"h", "t", "t", "p", ":", "/", "/", "a">>],
     [name |-> <<"a", "b">>, url |-> <<"a", " ", "b">>],
     [name |-> <<"h", "o">>, url |-> <<"a">>] >>

PageLists == {KnownPages}

\* contents the external list can take: the known pages, or nothing stored
StoredLists == {KnownPages, <<>>}

\* texts the user types into the URL input
UrlInputs == {<<>>, <<" ">>, <<"a">>, <<"a", " ", "b">>}

\* characters of raw inputs: a word character, a character that is neither a
\* word character nor special to addProtocol, ':', '/', '#' and a space
Alphabet == {"a", ".", ":", "/", "#", " "}

RawInputs == UNION {[1..n -> Alphabet] : n \in 0..MaxLen}

\* texts the user types into the search input
Queries == {<<>>, <<"o", " ">>, <<"H">>}

\* the literal 'null' href compared in checkState
NullHref == <<"n", "u", "l", "l">>

InitHrefs == {<<"h", "t", "t", "p", ":", "/", "/", "a">>, NullHref}

\* what getAttribute('href') returns for an <a> without the attribute (null):
\* not a text, and equal to no text
NoHrefAttr == <<"(no href)">>

\* the text an input shows after its value was assigned v: null shows as ''
inputText(v) == IF v = NoHrefAttr THEN <<>> ELSE v

\* hrefs of links met by checkState: a known page's url, a url of no known
\* page, no href attribute, and the literal 'null'
ListHrefs == {<<"h", "t", "t", "p", ":", "/", "/", "a">>, <<"#">>, NoHrefAttr, NullHref}

\* documents the tool can be attached to: no link, or one link
InitDocs ==
  {[c \in 1..DocLen |-> Plain]} \cup
  {[c \in 1..DocLen |-> IF c \in r[1]..r[2] THEN Anchor(h) ELSE Plain] :
     r \in {q \in (1..DocLen) \X (1..DocLen) : q[1] <= q[2]}, h \in InitHrefs}

\* documents with any links in them, for the list view
ListDocs == [1..DocLen -> {Plain} \cup {Anchor(h) : h \in ListHrefs}]

\* ------------------------------------------------------------------ state
VARIABLES
  doc,          \* the edited text: the <a> markup of each cell
  live,         \* the window's live selection
  selection,    \* this.selection, the controller's SelectionUtils
  inputOpened,  \* this.inputOpened
  inputValue,   \* this.nodes.input.value
  searchValue,  \* this.nodes.searchInput.value
  pageLinks,    \* this.pageLinks
  linkElements, \* this.linkElements, the <li> of this.nodes.ul
  calls,        \* host, DOM and helper calls made by the last handler
  lastOp,       \* the last handler or event
  submitted,    \* the value the last enterPressed worked on
  created,      \* the hrefs the last handler passed to the createLink command
  existingLinks,\* window.localStorage.existingLinks, parsed
  raw,          \* a raw user input handed to prepareLink on its own
  normalized    \* what prepareLink returned for it

vars == <<doc, live, selection, inputOpened, inputValue, searchValue, pageLinks,
          linkElements, calls, lastOp, submitted, created, existingLinks, raw,
          normalized>>

\* the tool and its surroundings at the start of a handler
This ==
  [doc |-> doc, live |-> live, selection |-> selection, inputOpened |-> inputOpened,
   inputValue |-> inputValue, searchValue |-> searchValue, pageLinks |-> pageLinks,
   linkElements |-> linkElements, calls |-> {}, created |-> {}]

Commit(s, op, value) ==
  /\ doc' = s.doc
  /\ live' = s.live
  /\ selection' = s.selection
  /\ inputOpened' = s.inputOpened
  /\ inputValue' = s.inputValue
  /\ searchValue' = s.searchValue
  /\ pageLinks' = s.pageLinks
  /\ linkElements' = s.linkElements
  /\ calls' = s.calls
  /\ lastOp' = op
  /\ submitted' = value
  /\ created' = s.created
  /\ UNCHANGED <<existingLinks, raw, normalized>>

called(s, what) == [s EXCEPT !.calls = @ \cup {what}]

\* ------------------------------------------------------------- controller
renderList(s, list) ==
  [s EXCEPT !.linkElements =
     [i \in 1..Len(list) |-> [each |-> list[i], selected |-> FALSE]]]

\* the search input's keyup listener
searchKeyup(s) ==
  IF Len(trim(s.searchValue)) > 0
  THEN renderList(s, SelectSeq(s.pageLinks,
         LAMBDA each : includes(toLocaleLowerCase(each.name), trim(s.searchValue))))
  ELSE renderList(s, s.pageLinks)

\* mutant: the unlink command is never issued
unlink_Noop(s) == s

unlink(s) == [s EXCEPT !.doc = execUnlink(s.doc, s.live)]

\* mutant: the selection is not widened to the enclosing <a>
insertLink_NoExpand(s, link) ==
  [s EXCEPT !.doc = execCreateLink(s.doc, s.live, link), !.created = @ \cup {link}]

insertLink(s, link) ==
  LET anchorTag == findParentTag(s.doc, s.live)
      s1 == IF anchorTag # NoTag THEN [s EXCEPT !.live = expandToTag(anchorTag)] ELSE s
  IN [s1 EXCEPT !.doc = execCreateLink(s1.doc, s1.live, link),
                !.created = @ \cup {link}]

\* mutant: openActions flips the flag instead of setting it
openActions_Toggle(s, needFocus, focusLoses) ==
  LET s1 == IF needFocus
            THEN [called(s, "input.focus") EXCEPT
                    !.live = IF focusLoses THEN NoSel ELSE @]
            ELSE s
  IN [s1 EXCEPT !.inputOpened = ~s.inputOpened]

\* mutant: needFocus is ignored
openActions_NoFocus(s, needFocus, focusLoses) == [s EXCEPT !.inputOpened = TRUE]

\* focusLoses: whether focusing the URL input drops the window's selection
openActions(s, needFocus, focusLoses) ==
  LET s1 == IF needFocus
            THEN [called(s, "input.focus") EXCEPT
                    !.live = IF focusLoses THEN NoSel ELSE @]
            ELSE s
  IN [s1 EXCEPT !.inputOpened = TRUE]

\* mutant: the newer selection is not put back after the fake background is removed
closeActions_NoRecover(s, clearSavedSelection) ==
  LET s1 == IF s.selection.isFakeBackgroundEnabled
            THEN [s EXCEPT
                    !.selection = removeFakeBackground(s.selection),
                    !.live = restore(s.selection, s.live)]
            ELSE s
      s2 == [s1 EXCEPT !.inputValue = <<>>]
      s3 == IF clearSavedSelection
            THEN [s2 EXCEPT !.selection = clearSaved(s2.selection)]
            ELSE s2
  IN [s3 EXCEPT !.inputOpened = FALSE]

\* mutant: the fake background is removed without restoring the saved selection
closeActions_NoRestore(s, clearSavedSelection) ==
  LET s1 == [s EXCEPT !.selection = removeFakeBackground(s.selection)]
      s2 == [s1 EXCEPT !.inputValue = <<>>]
      s3 == IF clearSavedSelection
            THEN [s2 EXCEPT !.selection = clearSaved(s2.selection)]
            ELSE s2
  IN [s3 EXCEPT !.inputOpened = FALSE]

\* mutant: the fake background is left in place
closeActions_KeepFake(s, clearSavedSelection) ==
  LET s2 == [s EXCEPT !.inputValue = <<>>]
      s3 == IF clearSavedSelection
            THEN [s2 EXCEPT !.selection = clearSaved(s2.selection)]
            ELSE s2
  IN [s3 EXCEPT !.inputOpened = FALSE]

closeActions(s, clearSavedSelection) ==
  LET s1 == IF s.selection.isFakeBackgroundEnabled
            THEN LET currentSelection == save(NewSelectionUtils, s.live)
                 IN [called(s, "currentSelection.restore") EXCEPT
                       !.selection = removeFakeBackground(s.selection),
                       !.live = restore(currentSelection, restore(s.selection, s.live))]
            ELSE s
      s2 == [s1 EXCEPT !.inputValue = <<>>]
      s3 == IF clearSavedSelection
            THEN [s2 EXCEPT !.selection = clearSaved(s2.selection)]
            ELSE s2
  IN [s3 EXCEPT !.inputOpened = FALSE]

\* mutant: clear keeps the saved selection
clear_KeepSaved(s) == closeActions(s, FALSE)

clear(s) == closeActions(s, TRUE)

\* mutant: the toggle-close clears the saved selection like every other close
toggleActions_ClearSaved(s, focusLoses) ==
  IF ~s.inputOpened THEN openActions(s, TRUE, focusLoses)
  ELSE closeActions(s, TRUE)

toggleActions(s, focusLoses) ==
  IF ~s.inputOpened THEN openActions(s, TRUE, focusLoses)
  ELSE closeActions(s, FALSE)

\* mutant: a page is marked when the href contains its url
checkState_Includes(s) ==
  LET s1 == renderList([s EXCEPT !.searchValue = <<>>], s.pageLinks)
      anchorTag == findParentTag(s1.doc, s1.live)
  IN IF anchorTag # NoTag
     THEN LET s2 == openActions(s1, FALSE, FALSE)
              hrefAttr == s2.doc[anchorTag[1]].href
          IN [s2 EXCEPT
                !.inputValue = IF hrefAttr # NullHref THEN inputText(hrefAttr) ELSE <<>>,
                !.linkElements =
                   [i \in DOMAIN @ |->
                      [@[i] EXCEPT !.selected =
                         hrefAttr # NullHref /\ includes(hrefAttr, s2.pageLinks[i].url)]],
                !.selection = save(s2.selection, s2.live)]
     ELSE [s1 EXCEPT
             !.linkElements = [i \in DOMAIN @ |-> [@[i] EXCEPT !.selected = FALSE]]]

\* mutant: the selection is saved whether or not it is inside a link
checkState_AlwaysSave(s) ==
  LET s1 == renderList([s EXCEPT !.searchValue = <<>>], s.pageLinks)
      anchorTag == findParentTag(s1.doc, s1.live)
  IN IF anchorTag # NoTag
     THEN LET s2 == openActions(s1, FALSE, FALSE)
              hrefAttr == s2.doc[anchorTag[1]].href
          IN [s2 EXCEPT
                !.inputValue = IF hrefAttr # NullHref THEN inputText(hrefAttr) ELSE <<>>,
                !.linkElements =
                   [i \in DOMAIN @ |->
                      [@[i] EXCEPT !.selected =
                         hrefAttr # NullHref /\ s2.pageLinks[i].url = hrefAttr]],
                !.selection = save(s2.selection, s2.live)]
     ELSE [s1 EXCEPT
             !.linkElements = [i \in DOMAIN @ |-> [@[i] EXCEPT !.selected = FALSE]],
             !.selection = save(s1.selection, s1.live)]

checkState(s) ==
  LET s1 == renderList([s EXCEPT !.searchValue = <<>>], s.pageLinks)
      anchorTag == findParentTag(s1.doc, s1.live)
  IN IF anchorTag # NoTag
     THEN LET s2 == openActions(s1, FALSE, FALSE)
              hrefAttr == s2.doc[anchorTag[1]].href
          IN [s2 EXCEPT
                !.inputValue = IF hrefAttr # NullHref THEN inputText(hrefAttr) ELSE <<>>,
                !.linkElements =
                   [i \in DOMAIN @ |->
                      [@[i] EXCEPT !.selected =
                         hrefAttr # NullHref /\ s2.pageLinks[i].url = hrefAttr]],
                !.selection = save(s2.selection, s2.live)]
     ELSE [s1 EXCEPT
             !.linkElements = [i \in DOMAIN @ |-> [@[i] EXCEPT !.selected = FALSE]]]

\* the host's inlineToolbar.close(): the floating toolbar closes and the host
\* tells the tool so through clear()
inlineToolbarClose(s) == clear(called(s, "inlineToolbar.close"))

\* range: whether the host passed a Range (TRUE) or null (FALSE)
surround(s, range, focusLoses) ==
  IF range
  THEN LET s1 == IF ~s.inputOpened
                 THEN [called(s, "setFakeBackground") EXCEPT
                         !.selection = save(setFakeBackground(@), s.live)]
                 ELSE [s EXCEPT !.live = restore(s.selection, s.live),
                                !.selection = removeFakeBackground(@)]
           parentAnchor == findParentTag(s1.doc, s1.live)
       IN IF parentAnchor # NoTag
          THEN LET s2 == [s1 EXCEPT !.live = expandToTag(parentAnchor)]
               IN called(checkState(closeActions(unlink(s2), TRUE)), "toolbar.close")
          ELSE toggleActions(s1, focusLoses)
  ELSE toggleActions(s, focusLoses)

enterPressed(s, isExisting, data) ==
  LET value == IF isExisting THEN data ELSE s.inputValue
      s1 == IF trim(value) = <<>>
            THEN LET r == [s EXCEPT !.live = restore(s.selection, s.live)]
                 IN closeActions(called(unlink(r), "preventDefault"), TRUE)
            ELSE s
  IN IF ~validateURL(value)
     THEN called(s1, "notifier.show")
     ELSE LET link == prepareLink(value)
              s2 == [s1 EXCEPT !.live = restore(s1.selection, s1.live),
                               !.selection = removeFakeBackground(@)]
              s3 == called(insertLink(s2, link), "preventDefault")
              s4 == [s3 EXCEPT !.live = collapseToEnd(@)]
          IN inlineToolbarClose(s4)

\* ---------------------------------------------------------------- actions
InitTool ==
  /\ live = NoSel
  /\ selection = NewSelectionUtils
  /\ inputOpened = FALSE
  /\ inputValue = <<>>
  /\ searchValue = <<>>
  /\ pageLinks \in PageLists
  /\ linkElements = [i \in 1..Len(pageLinks) |-> [each |-> pageLinks[i], selected |-> FALSE]]
  /\ calls = {}
  /\ lastOp = "init"
  /\ submitted = <<>>
  /\ created = {}
  /\ existingLinks = pageLinks

Init == doc \in InitDocs /\ InitTool /\ raw = <<>> /\ normalized = <<>>

\* the host's click on the icon: surround(range of the live selection).  The
\* range is null only on the second click, when the opened input took the
\* selection away.
Surround ==
  /\ live # NoSel \/ inputOpened
  /\ \E focusLoses \in BOOLEAN :
       Commit(surround(This, live # NoSel, focusLoses), "surround", <<>>)

CheckState == Commit(checkState(This), "checkState", <<>>)

Clear == Commit(clear(This), "clear", <<>>)

\* the user leaves the URL input as it is or types a text into it, and presses
\* ENTER_KEY there; the input is shown only while the panel is open
EnterKey ==
  /\ inputOpened
  /\ \E v \in UrlInputs \cup {inputValue} :
       Commit(enterPressed([This EXCEPT !.inputValue = v], FALSE, <<>>), "enterKey", v)

\* click on a rendered <li>
ListClick ==
  /\ inputOpened
  /\ \E i \in DOMAIN linkElements :
       Commit(enterPressed(This, TRUE, linkElements[i].each.url), "listClick",
              linkElements[i].each.url)

\* the user edits the search input and releases the key
SearchKeyup ==
  /\ inputOpened
  /\ \E q \in Queries :
       Commit(searchKeyup([This EXCEPT !.searchValue = q]), "searchKeyup", <<>>)

\* the user selects text, places the caret or leaves the document
SelectionChange ==
  \E sel \in Selections \cup {NoSel} :
    Commit([This EXCEPT !.live = sel], "user", <<>>)

Next ==
  \/ Surround
  \/ CheckState
  \/ Clear
  \/ EnterKey
  \/ ListClick
  \/ SearchKeyup
  \/ SelectionChange

Spec == Init /\ [][Next]_vars

\* the list view: the tool attached to documents with links of every kind of
\* href, driven by the events that render or mark the list or move the panel
InitList == doc \in ListDocs /\ InitTool /\ raw = <<>> /\ normalized = <<>>

NextList ==
  \/ SelectionChange
  \/ CheckState
  \/ SearchKeyup
  \/ Surround
  \/ Clear

SpecList == InitList /\ [][NextList]_vars

\* the page that owns window.localStorage.existingLinks rewrites it
StorageChange ==
  /\ \E list \in StoredLists \ {existingLinks} : existingLinks' = list
  /\ lastOp' = "storage"
  /\ calls' = {}
  /\ created' = {}
  /\ submitted' = <<>>
  /\ UNCHANGED <<doc, live, selection, inputOpened, inputValue, searchValue, pageLinks,
                 linkElements, raw, normalized>>

NextStorage ==
  \/ Surround
  \/ CheckState
  \/ Clear
  \/ EnterKey
  \/ ListClick
  \/ SearchKeyup
  \/ SelectionChange
  \/ StorageChange

\* the tool beside a changing external list
SpecStorage == Init /\ [][NextStorage]_vars

\* prepareLink on its own: applied to a raw input, and again to its result
InitNormalize ==
  /\ doc = [c \in 1..DocLen |-> Plain]
  /\ InitTool
  /\ raw \in RawInputs
  /\ normalized = <<>>

PrepareLink ==
  /\ lastOp = "init"
  /\ normalized' = prepareLink(raw)
  /\ lastOp' = "prepareLink"
  /\ UNCHANGED <<doc, live, selection, inputOpened, inputValue, searchValue, pageLinks,
                 linkElements, calls, submitted, created, existingLinks, raw>>

PrepareAgain ==
  /\ lastOp = "prepareLink"
  /\ normalized' = prepareLink(normalized)
  /\ lastOp' = "prepareLink again"
  /\ UNCHANGED <<doc, live, selection, inputOpened, inputValue, searchValue, pageLinks,
                 linkElements, calls, submitted, created, existingLinks, raw>>

NextNormalize ==
  \/ PrepareLink
  \/ PrepareAgain

SpecNormalize == InitNormalize /\ [][NextNormalize]_vars

\* ----------------------------------------------------------------- claims
saved == selection.savedSelectionRange

fake == selection.isFakeBackgroundEnabled

hasWhitespace(v) == \E i \in 1..Len(v) : v[i] \in WS

isBlank(v) == \A i \in 1..Len(v) : v[i] \in WS

inLink(d, sel) == findParentTag(d, sel) # NoTag

\* the cells of the <a> element around selection sel
linkCells(d, sel) == findParentTag(d, sel)[1]..findParentTag(d, sel)[2]

isSubmit(op) == op \in {"enterKey", "listClick"}

\* nothing but the text typed for an Enter submit differs from before
toolUnchanged ==
  /\ UNCHANGED <<doc, live, selection, inputOpened, searchValue,
                 pageLinks, linkElements>>
  /\ inputValue' = (IF lastOp' = "enterKey" THEN submitted' ELSE inputValue)

\* C1 as stated: a submit of any value that contains a whitespace character
\* shows the notification and changes nothing; the panel stays open.
C1_Original ==
  [][(isSubmit(lastOp') /\ hasWhitespace(submitted'))
       => ("notifier.show" \in calls' /\ inputOpened' /\ toolUnchanged)]_vars

\* C1 amended: a submit of a value that contains a whitespace character and at
\* least one other character shows the notification and changes nothing: panel,
\* URL input, snapshot, fake highlight, live selection and markup stay as they were.
C1_InvalidSubmitChangesNothing ==
  [][(isSubmit(lastOp') /\ hasWhitespace(submitted') /\ ~isBlank(submitted'))
       => ("notifier.show" \in calls' /\ inputOpened' /\ toolUnchanged)]_vars

C1_Witness ==
  /\ isSubmit(lastOp)
  /\ hasWhitespace(submitted) /\ ~isBlank(submitted)
  /\ "notifier.show" \in calls
  /\ inputOpened /\ fake /\ saved # NoSel

\* C2: Enter with an empty URL input while the saved selection sits inside a
\* link ends with that link removed, the panel closed, no link around the
\* range, no link inserted and no notification shown.
C2_EmptyEnterOnlyUnlinks ==
  [][(lastOp' = "enterKey" /\ submitted' = <<>> /\ saved # NoSel /\ inLink(doc, saved))
       => /\ \A c \in linkCells(doc, saved) : ~doc'[c].a
          /\ ~inputOpened'
          /\ ~inLink(doc', saved)
          /\ \A c \in 1..DocLen : doc'[c].a => doc'[c] = doc[c]
          /\ "notifier.show" \notin calls']_vars

\* C3 as stated: checkState leaves the panel open exactly when it was open.
C3_Original ==
  [][lastOp' = "checkState" => (inputOpened' <=> inputOpened)]_vars

\* C3 amended: checkState never closes the panel, and it opens a closed panel
\* exactly when the live selection sits inside a link.
C3_CheckStateOpensOnLink ==
  [][lastOp' = "checkState"
       => (inputOpened' <=> (inputOpened \/ inLink(doc, live)))]_vars

C3_Witness ==
  /\ lastOp = "checkState"
  /\ inputOpened /\ ~fake
  /\ inLink(doc, live) /\ saved = live

\* C4 as stated: an icon activation while the panel is open, in either
\* sub-state, restores the saved selection, removes the fake highlight, closes
\* the panel, keeps the snapshot and leaves the markup alone.
C4_Original ==
  [][(lastOp' = "surround" /\ inputOpened)
       => /\ (saved # NoSel => live' = saved)
          /\ ~fake' /\ ~inputOpened'
          /\ saved' = saved
          /\ doc' = doc]_vars

\* C4 amended: the activation is a pure toggle-close in sub-state Creating
\* (fake highlight active, saved selection outside any link); in sub-state
\* Editing (saved selection inside a link) an activation that carries a range
\* removes the whole link, closes the panel and clears the snapshot.
C4_ToggleCloseWhenCreating ==
  [][(lastOp' = "surround" /\ inputOpened /\ saved # NoSel)
       => /\ (fake /\ ~inLink(doc, saved))
               => /\ live' = saved
                  /\ ~fake' /\ ~inputOpened'
                  /\ saved' = saved
                  /\ doc' = doc
          /\ (inLink(doc, saved) /\ live # NoSel)
               => /\ \A c \in linkCells(doc, saved) : ~doc'[c].a
                  /\ ~fake' /\ ~inputOpened'
                  /\ saved' = NoSel]_vars

C4_Witness ==
  /\ lastOp = "surround"
  /\ ~inputOpened /\ ~fake
  /\ saved # NoSel /\ live = saved /\ ~inLink(doc, saved)
  /\ calls = {}

\* C5 as stated: clear() with a fake highlight active leaves the live
\* selection as it was, also when there is none, and drops the fake highlight.
C5_Original ==
  [][(lastOp' = "clear" /\ fake) => (live' = live /\ ~fake')]_vars

\* C5 amended: clear() with a fake highlight active drops the fake highlight
\* and leaves the live selection as it was when there is one; when there is no
\* live selection the controller's own snapshot, untouched by the temporary
\* guard, becomes the live selection.
C5_ClearKeepsNewerSelection ==
  [][(lastOp' = "clear" /\ fake)
       => /\ saved # NoSel
          /\ live' = (IF live # NoSel THEN live ELSE saved)
          /\ ~fake']_vars

C5_Witness ==
  /\ lastOp = "clear"
  /\ "currentSelection.restore" \in calls
  /\ ~fake /\ ~inputOpened /\ saved = NoSel
  /\ live # NoSel /\ live[1] < live[2]

\* C6: an icon activation with a range while the panel is closed and the
\* selection has no enclosing link sets the fake highlight, stores the live
\* selection as the snapshot, opens the panel, focuses the URL input and
\* leaves the markup alone.
C6_OpenCreating ==
  [][(lastOp' = "surround" /\ ~inputOpened /\ live # NoSel /\ ~inLink(doc, live))
       => /\ fake'
          /\ saved' = live
          /\ inputOpened'
          /\ "input.focus" \in calls'
          /\ doc' = doc]_vars

C6_Witness ==
  /\ lastOp = "surround"
  /\ inputOpened /\ fake
  /\ saved # NoSel /\ ~inLink(doc, saved)
  /\ "input.focus" \in calls

\* C7: an icon activation while the panel is closed and the selection sits
\* inside a link removes the whole link and ends closed, without fake
\* highlight, with the snapshot cleared and toolbar.close() called.
C7_OneShotUnlink ==
  [][(lastOp' = "surround" /\ ~inputOpened /\ live # NoSel /\ inLink(doc, live))
       => /\ \A c \in linkCells(doc, live) : ~doc'[c].a
          /\ ~inputOpened'
          /\ ~fake'
          /\ saved' = NoSel
          /\ "toolbar.close" \in calls']_vars

C7_Witness ==
  /\ lastOp = "surround"
  /\ "toolbar.close" \in calls
  /\ ~inputOpened /\ ~fake /\ saved = NoSel
  /\ live # NoSel /\ \A c \in cover(live) : ~doc[c].a

\* the selection a submit works on: the snapshot, or the live selection when
\* no snapshot is stored, widened to the enclosing link if there is one
submitTarget ==
  LET e == IF saved # NoSel THEN saved ELSE live
  IN IF inLink(doc, e) THEN expandToTag(findParentTag(doc, e)) ELSE e

\* C8: after a submit of a non-empty value without whitespace the saved
\* selection has been restored, the fake highlight is off, a link to the
\* normalized value covers the saved selection (the whole enclosing link if it
\* sat inside one), the live selection is collapsed to its end,
\* inlineToolbar.close() has been called and the panel is closed.
C8_ValidSubmitInsertsLink ==
  [][(isSubmit(lastOp') /\ submitted' # <<>> /\ ~hasWhitespace(submitted'))
       => /\ ~fake'
          /\ \A c \in cover(submitTarget) : doc'[c] = Anchor(prepareLink(submitted'))
          /\ live' = collapseToEnd(submitTarget)
          /\ "inlineToolbar.close" \in calls'
          /\ ~inputOpened']_vars

C8_Witness ==
  /\ isSubmit(lastOp)
  /\ submitted # <<>> /\ ~hasWhitespace(submitted)
  /\ "inlineToolbar.close" \in calls
  /\ ~inputOpened /\ ~fake
  /\ live = <<DocLen, DocLen>>
  /\ \A c \in 1..DocLen : doc[c] = Anchor(prepareLink(submitted))

\* C9: opening the panel by an icon activation on a selection without
\* enclosing link and closing it by a second activation right after, whether
\* the focused input kept the selection (a range is passed) or not (null is
\* passed), leaves the live selection where it was, the fake highlight off, the
\* panel closed and the markup unchanged.
C9_OpenCloseRoundTrip ==
  (~inputOpened /\ live # NoSel /\ ~inLink(doc, live))
    => \A focusLoses \in BOOLEAN :
         LET opened == surround(This, TRUE, focusLoses)
             closed == surround([opened EXCEPT !.calls = {}], opened.live # NoSel, FALSE)
         IN /\ opened.inputOpened
            /\ closed.live = live
            /\ ~closed.selection.isFakeBackgroundEnabled
            /\ ~closed.inputOpened
            /\ closed.doc = doc

C9_Witness ==
  /\ lastOp = "surround"
  /\ "currentSelection.restore" \in calls
  /\ ~inputOpened /\ ~fake
  /\ saved # NoSel /\ live = saved /\ ~inLink(doc, live)

\* case-insensitive substring filter on the trimmed query, in input order
filterByName(entries, query) ==
  IF isBlank(query) THEN entries
  ELSE SelectSeq(entries,
         LAMBDA e : includes(toLocaleLowerCase(e.name), toLocaleLowerCase(trim(query))))

\* C10: the search filter shows, in input order, exactly the known pages whose
\* name contains the trimmed query compared without regard to letter case; an
\* empty or whitespace-only query shows the full list.
C10_FilterIgnoresCase ==
  lastOp = "searchKeyup"
    => [i \in DOMAIN linkElements |-> linkElements[i].each]
         = filterByName(pageLinks, searchValue)

\* the href of the <a> element around selection sel
hrefAround(d, sel) == d[findParentTag(d, sel)[1]].href

\* the indices of the list entries marked active
marked == {i \in DOMAIN linkElements : linkElements[i].selected}

\* C11: after checkState the whole page list is rendered, and an entry is
\* marked active if and only if the selection is inside a link and the entry's
\* url equals the link's href: for the href of a known page exactly that one
\* entry is marked; for an unknown href, a link without href and the literal
\* 'null' no entry is marked; outside any link no entry is marked.
C11_CheckStateMarksActive ==
  lastOp = "checkState"
    => /\ [i \in DOMAIN linkElements |-> linkElements[i].each] = pageLinks
       /\ \A i \in DOMAIN linkElements :
            linkElements[i].selected
              <=> (inLink(doc, live) /\ pageLinks[i].url = hrefAround(doc, live))
       /\ (inLink(doc, live) /\ \E i \in DOMAIN pageLinks :
                                  pageLinks[i].url = hrefAround(doc, live))
            => Cardinality(marked) = 1
       /\ (inLink(doc, live)
             /\ hrefAround(doc, live) \in {<<"#">>, NoHrefAttr, NullHref})
            => marked = {}
       /\ ~inLink(doc, live) => marked = {}

\* checkState marked the page of the link under the selection, in a document
\* that also holds a link to no known page
C11_Witness ==
  /\ lastOp = "checkState"
  /\ inLink(doc, live)
  /\ marked = {1}
  /\ pageLinks[1].url = hrefAround(doc, live)
  /\ \E c \in 1..DocLen : doc[c].a /\ doc[c].href \in {<<"#">>, NoHrefAttr, NullHref}

\* t begins with <scheme>://, a scheme being one or more word characters
beginsWithScheme(t) ==
  \E k \in 1..Len(t) :
    /\ k + 3 <= Len(t)
    /\ SubSeq(t, k + 1, k + 3) = <<":", "/", "/">>
    /\ \A i \in 1..k : t[i] \in WordChars

\* the rules of normalize in their order; notAfterSlashes: the characters that
\* may not follow the '//' of a protocol-relative link
normalizeRules(str, notAfterSlashes) ==
  LET t == trim(str)
  IN IF beginsWithScheme(t) THEN t
     ELSE IF Len(t) >= 2 /\ t[1] = "/" /\ t[2] \notin {"/"} \cup WS THEN t
     ELSE IF Len(t) >= 1 /\ t[1] = "#" THEN t
     ELSE IF Len(t) >= 3 /\ t[1] = "/" /\ t[2] = "/" /\ t[3] \notin notAfterSlashes THEN t
     ELSE <<"h", "t", "t", "p", ":", "/", "/">> \o t

\* C12 as stated: normalize trims and returns the trimmed string unchanged when
\* it begins with <scheme>://, with a single '/' and a non-slash non-whitespace
\* character, with '#', or with '//' and a non-slash character; otherwise it
\* returns 'http://' and the trimmed string.
C12_Original ==
  lastOp = "prepareLink" => normalized = normalizeRules(raw, {"/"})

\* C12 amended: as stated, but the character after '//' must be neither a slash
\* nor whitespace for the string to be returned unchanged.
C12_NormalizeRules ==
  lastOp = "prepareLink" => normalized = normalizeRules(raw, {"/"} \cup WS)

\* '// a' is not protocol-relative and gets the prefix
C12_Witness ==
  /\ lastOp = "prepareLink"
  /\ raw = <<"/", "/", " ", "a">>
  /\ normalized = <<"h", "t", "t", "p", ":", "/", "/", "/", "/", " ", "a">>

\* C13 as stated: normalize(normalize(s)) = normalize(s), and a string that
\* begins with scheme:// is returned unchanged by every application.
C13_Original ==
  /\ lastOp = "prepareLink again" => normalized = prepareLink(raw)
  /\ (lastOp \in {"prepareLink", "prepareLink again"} /\ beginsWithScheme(raw))
       => normalized = raw

\* C13 amended: normalize(normalize(s)) = normalize(s), and a string that begins
\* with scheme:// and has no whitespace at its end is returned unchanged by
\* every application; with whitespace at its end it is returned trimmed.
C13_NormalizeIdempotent ==
  /\ lastOp = "prepareLink again" => normalized = prepareLink(raw)
  /\ (lastOp \in {"prepareLink", "prepareLink again"} /\ beginsWithScheme(raw))
       => /\ normalized = trim(raw)
          /\ raw[Len(raw)] \notin WS => normalized = raw

\* prepareLink applied twice to a scheme:// string that ends with a space
C13_Witness ==
  /\ lastOp = "prepareLink again"
  /\ raw = <<"a", ":", "/", "/", " ">>
  /\ normalized = <<"a", ":", "/", "/">>

\* C14: whenever the panel goes from Closed to Open, by the icon or by
\* checkState on a link, the stored page list and the rendered list are the
\* external list's current contents.
C14_ListRefreshedOnOpen ==
  [][(~inputOpened /\ inputOpened')
       => /\ pageLinks' = existingLinks'
          /\ [i \in DOMAIN linkElements' |-> linkElements'[i].each] = existingLinks']_vars

\* C15: clear() from any reachable state leaves the panel closed, the fake
\* highlight off, the URL input empty and the snapshot cleared; every state
\* that clear() has just produced is of that kind.
C15_ClearQuiesces ==
  LET c == clear(This)
  IN /\ ~c.inputOpened
     /\ ~c.selection.isFakeBackgroundEnabled
     /\ c.inputValue = <<>>
     /\ c.selection.savedSelectionRange = NoSel
     /\ lastOp = "clear"
          => (~inputOpened /\ ~fake /\ inputValue = <<>> /\ saved = NoSel)

\* clear() has ended a fake highlight and left the quiescent state
C15_Witness ==
  /\ lastOp = "clear"
  /\ "currentSelection.restore" \in calls
  /\ ~inputOpened /\ ~fake /\ inputValue = <<>> /\ saved = NoSel

\* C16: at the end of every handler, an active fake highlight comes with a
\* stored snapshot.
C16_FakeHasSnapshot == fake => saved # NoSel

\* the fake highlight and its snapshot have outlived a checkState
C16_Witness ==
  /\ lastOp = "checkState"
  /\ fake /\ saved # NoSel

\* C17 as stated: the snapshot is the selection that was live when the fake
\* highlight was set, and no event changes it while the highlight stays.
C17_Original ==
  [][/\ (~fake /\ fake') => saved' = live
     /\ (fake /\ fake') => saved' = saved]_vars

\* C17 amended: the snapshot is the selection that was live when the fake
\* highlight was set, and while the highlight stays the only event that
\* changes it is a checkState with the live selection inside a link, which
\* stores that live selection.
C17_SnapshotUnderFake ==
  [][/\ (~fake /\ fake') => saved' = live
     /\ (fake /\ fake')
          => \/ saved' = saved
             \/ lastOp' = "checkState" /\ inLink(doc, live) /\ saved' = live]_vars

\* checkState has replaced the snapshot of an active fake highlight, which was
\* set outside any link, by a selection inside a link
C17_Witness ==
  /\ lastOp = "checkState"
  /\ fake /\ inputOpened
  /\ inLink(doc, live) /\ saved = live

\* C18: at the end of every handler an active fake highlight comes with an
\* open panel, and setFakeBackground is only invoked while no fake highlight
\* is active.
C18_FakeOnlyWhileOpen ==
  [][/\ fake' => inputOpened'
     /\ "setFakeBackground" \in calls' => ~fake]_vars

\* the fake highlight has outlived a rejected submit, the panel still open
C18_Witness ==
  /\ lastOp = "enterKey"
  /\ "notifier.show" \in calls
  /\ fake /\ inputOpened

\* h begins with <scheme>://, '/' and a non-slash character, '#', or '//' and
\* a non-slash character
beginsAsLink(h) ==
  \/ beginsWithScheme(h)
  \/ Len(h) >= 2 /\ h[1] = "/" /\ h[2] # "/"
  \/ Len(h) >= 1 /\ h[1] = "#"
  \/ Len(h) >= 3 /\ h[1] = "/" /\ h[2] = "/" /\ h[3] # "/"

\* C19: every href passed to the createLink command has no whitespace, is the
\* normalize of the submitted value, which is not empty, and begins with
\* <scheme>://, '/' and a non-slash character, '#', or '//' and a non-slash
\* character.
C19_CreatedHrefs ==
  \A h \in created :
    /\ ~hasWhitespace(h)
    /\ isSubmit(lastOp)
    /\ trim(submitted) # <<>>
    /\ h = prepareLink(submitted)
    /\ beginsAsLink(h)

====
